---- MODULE Spec2Model ----
(***************************************************************************)
(* Virgilio backend: the polling scheduler (BackendPoller), the metrics    *)
(* ingestion pipeline (ingest_backend_metrics and its resilient wrapper),  *)
(* the threshold evaluator (detect_warnings) and the persistent snapshot   *)
(* store with its retention pruning.                                       *)
(*                                                                         *)
(* Time is the wall clock in seconds.  Metric values and thresholds are    *)
(* held in tenths of their unit, the precision the warning texts print.    *)
(* A Python value that may be None is <<>> (None) or <<v>> (the value v).  *)
(***************************************************************************)
EXTENDS Integers, Sequences, FiniteSets, TLC

\* ------------------------------------------------------------- bounds
MaxTime == 5
MaxIngests == 2

MaxStoreTime == 80
MaxRecords == 2
MaxReads == 2
MaxEntries == 1

MaxTiles == 3
MaxLoops == 3
MaxPingTime == 120
Backends == {1, 2}
ClockSteps == {5}
DaySeconds == 24 * 60 * 60

\* -------------------------------------------------- program constants
MIN_INTERVAL_SECONDS == 30
DEFAULT_TICK_SECONDS == 5
RETRY_CAP_SECONDS == 60
DEFAULT_POLL_INTERVAL == 60
DEFAULT_RETENTION_DAYS == 7
MIN_RETENTION_DAYS == 1
MAX_RETENTION_DAYS == 90
MIN_HISTORY_RETENTION == 60
Decimals == 10
DEFAULT_CPU_TEMP == 80 * Decimals
DEFAULT_RAM_PERCENT == 90 * Decimals
DEFAULT_DISK_PERCENT == 90 * Decimals

\* ------------------------------------------------------ optional values
None == <<>>
Some(v) == <<v>>
Max(a, b) == IF a >= b THEN a ELSE b
Min(a, b) == IF a <= b THEN a ELSE b

\* bool(value) of an optional string: None and "" are false
Truthy(o) == o # None /\ o[1] # ""

\* "; ".join(warnings)
RECURSIVE Join(_)
Join(ws) ==
    IF ws = <<>> THEN ""
    ELSE IF Len(ws) = 1 THEN ws[1]
    ELSE ws[1] \o "; " \o Join(Tail(ws))

\* f"{value:.1f}" of a value held in tenths
Fmt1(v) == ToString(v \div Decimals) \o "." \o ToString(v % Decimals)

\* ---------------------------------------------------- threshold evaluator
_resolve_threshold(value, default) == IF value # None THEN value[1] ELSE default

_iter_mounts(payload) ==
    IF payload.mounted_usage # None THEN payload.mounted_usage[1] ELSE <<>>

_mount_label(entry) ==
    IF entry.mount_point # None THEN entry.mount_point[1] ELSE "mount"

RECURSIVE MountWarnings(_, _)
MountWarnings(mounts, mount_limit) ==
    IF mounts = <<>> THEN <<>>
    ELSE LET volume == Head(mounts)
             percent == volume.used_percent
         IN  (IF percent # None /\ percent[1] >= mount_limit
              THEN << _mount_label(volume) \o " usage critical at " \o Fmt1(percent[1]) \o "%" >>
              ELSE <<>>)
             \o MountWarnings(Tail(mounts), mount_limit)

\* an evaluator whose mounts fall back to the default of the root disk
detect_warnings_default_mount(payload, thresholds) ==
    LET cpu_limit == _resolve_threshold(thresholds.cpu_temperature_c, DEFAULT_CPU_TEMP)
        ram_limit == _resolve_threshold(thresholds.ram_used_percent, DEFAULT_RAM_PERCENT)
        disk_limit == _resolve_threshold(thresholds.disk_usage_percent, DEFAULT_DISK_PERCENT)
        mount_limit == IF thresholds.mounted_usage_percent = None
                       THEN DEFAULT_DISK_PERCENT
                       ELSE thresholds.mounted_usage_percent[1]
        temp == payload.cpu_temperature_c
        ram_percent == payload.ram_used_percent
        disk_percent == payload.disk_usage_percent
    IN  (IF temp # None /\ temp[1] >= cpu_limit
         THEN << "High CPU temperature " \o Fmt1(temp[1]) \o "C" >> ELSE <<>>)
        \o (IF ram_percent # None /\ ram_percent[1] >= ram_limit
            THEN << "High RAM usage " \o Fmt1(ram_percent[1]) \o "%" >> ELSE <<>>)
        \o (IF disk_percent # None /\ disk_percent[1] >= disk_limit
            THEN << "Disk usage critical at " \o Fmt1(disk_percent[1]) \o "%" >> ELSE <<>>)
        \o MountWarnings(_iter_mounts(payload), mount_limit)

detect_warnings(payload, thresholds) ==
    LET cpu_limit == _resolve_threshold(thresholds.cpu_temperature_c, DEFAULT_CPU_TEMP)
        ram_limit == _resolve_threshold(thresholds.ram_used_percent, DEFAULT_RAM_PERCENT)
        disk_limit == _resolve_threshold(thresholds.disk_usage_percent, DEFAULT_DISK_PERCENT)
        mount_limit == IF thresholds.mounted_usage_percent = None
                       THEN disk_limit
                       ELSE thresholds.mounted_usage_percent[1]
        temp == payload.cpu_temperature_c
        ram_percent == payload.ram_used_percent
        disk_percent == payload.disk_usage_percent
    IN  (IF temp # None /\ temp[1] >= cpu_limit
         THEN << "High CPU temperature " \o Fmt1(temp[1]) \o "C" >> ELSE <<>>)
        \o (IF ram_percent # None /\ ram_percent[1] >= ram_limit
            THEN << "High RAM usage " \o Fmt1(ram_percent[1]) \o "%" >> ELSE <<>>)
        \o (IF disk_percent # None /\ disk_percent[1] >= disk_limit
            THEN << "Disk usage critical at " \o Fmt1(disk_percent[1]) \o "%" >> ELSE <<>>)
        \o MountWarnings(_iter_mounts(payload), mount_limit)

\* warnings or None
OrNone(ws) == IF ws = <<>> THEN None ELSE Some(ws)

\* ------------------------------------------------------------ the state
VARIABLES
    now,          \* wall clock, seconds
    backends,     \* monitored_backends rows, by id
    snapshots,    \* metric_snapshots rows
    next_id,      \* metric_snapshots autoincrement
    settings,     \* telegram_settings.warn_thresholds, system_settings.metric_retention_days
    edited,       \* a configuration edit was made
    task,         \* BackendPoller._task: "none", "running", "done"
    stop_event,   \* BackendPoller._stop_event
    stopping,     \* a stop() call is awaiting the task
    next_run,     \* BackendPoller._next_run: None where no entry
    pc,           \* position of the poller loop
    schedules,    \* the list the running tick loaded
    idx,          \* the entry of schedules the tick is at
    tick_now,     \* `now` of the running tick
    poll_ev,      \* what the running tick did with the schedule before idx
    sess,         \* per caller of ingest: its session and the ingest call it awaits
    ingest_calls, \* calls of ingest_backend_metrics so far
    store_now,    \* the agent's clock, seconds
    heap,         \* the MetricPayload objects of the agent's process, by reference
    held,         \* the references callers of the repository hold
    items,        \* MetricsRepository._items, references, oldest first
    recorded,     \* the payloads passed to record() so far, as they were then
    returned,     \* what the last latest() returned, as it was then
    store_op,     \* the last operation on the repository
    q_items,      \* quick_status_items rows, by id: None where there is no row
    tile_resp,    \* the status of the last answer of the quick-status endpoints
    ping_now,     \* the clock the tile requests read, seconds
    ping_cache,   \* _PING_CACHE: None where no entry
    reqs,         \* per dashboard request: its build_quick_status_tiles call
    loops,        \* the _run tasks start() has created, by number: where each is
    poller_task,  \* BackendPoller._task as a task number, 0 for None
    stops         \* per caller of stop(): the task its call awaits, 0 when in no call

coreVars == << now, backends, snapshots, next_id, settings, edited, task, stop_event,
               stopping, next_run, pc, schedules, idx, tick_now, poll_ev, sess, ingest_calls >>

\* the agent's MetricsRepository: the objects of its process, and its deque
storeVars == << store_now, heap, held, items, recorded, returned, store_op >>

\* the status tile engine: the tile definitions, the liveness cache, the requests
tileVars == << q_items, tile_resp, ping_now, ping_cache, reqs >>

\* the poller as its tasks, for calls of start() and stop() that overlap
loopVars == << loops, poller_task, stops >>

auxVars == << storeVars, tileVars, loopVars >>

vars == << coreVars, auxVars >>

dbVars == << backends, snapshots, next_id >>
tickVars == << next_run, pc, schedules, idx, tick_now, poll_ev >>
pollerVars == << task, stop_event, stopping, tickVars >>

Callers == {"poller", "refresh"}

\* bid: the backend the session loaded; last_warning: its last_warning as loaded;
\* attempt: the ingest call of the caller that is running (0: none); migrated: the
\* schema fix ran and the session was rolled back; result, send: how the ingest
\* call ended and how its notification went ("n/a" until then)
IdleSession ==
    [bid |-> 0, last_warning |-> None, attempt |-> 0, migrated |-> FALSE,
     result |-> "n/a", send |-> "n/a"]

Loaded(b) == [IdleSession EXCEPT !.bid = b, !.last_warning = backends[b].last_warning,
                                 !.attempt = 1]

\* ------------------------------------------------------- persistent store
NewBackend(interval) ==
    [exists |-> TRUE, is_active |-> TRUE, poll_interval_seconds |-> interval,
     last_seen_at |-> None, last_warning |-> None]

\* _clamp_retention_days
_clamp_retention_days(value) ==
    IF value = None THEN DEFAULT_RETENTION_DAYS
    ELSE Max(MIN_RETENTION_DAYS, Min(MAX_RETENTION_DAYS, value[1]))

\* metric_retention_timedelta, in seconds
metric_retention_timedelta == _clamp_retention_days(settings.metric_retention_days) * DaySeconds

\* get_warn_thresholds: None when nothing is configured
get_warn_thresholds == settings.warn_thresholds

\* what ingest sets payload.warnings to before the snapshot is built
EvaluatedWarnings(payload) ==
    LET warn_thresholds == get_warn_thresholds
    IN  IF warn_thresholds # None
        THEN OrNone(detect_warnings(payload, warn_thresholds[1]))
        ELSE payload.warnings

\* build_snapshot_model: the columns the core reads
build_snapshot_model(id, backend_id, payload, warnings) ==
    [id |-> id, backend_id |-> backend_id, reported_at |-> payload.reported_at,
     cpu_temperature_c |-> payload.cpu_temperature_c,
     ram_used_percent |-> payload.ram_used_percent,
     disk_usage_percent |-> payload.disk_usage_percent,
     mounted_usage |-> payload.mounted_usage,
     uptime_seconds |-> payload.uptime_seconds,
     warnings |-> warnings]

\* a pruning that forgets the backend_id condition
DeleteExpiredOfAll(rows, b, cutoff) ==
    {s \in rows : ~(s.reported_at < cutoff)}

\* delete(MetricSnapshot).where(backend_id == b, reported_at < cutoff)
DeleteExpired(rows, b, cutoff) ==
    {s \in rows : ~(s.backend_id = b /\ s.reported_at < cutoff)}

\* bool(payload.warnings)
WarningActive(warnings) == warnings # None /\ warnings[1] # <<>>

\* backend.last_warning = "; ".join(payload.warnings) if payload.warnings else None
WarningSummary(warnings) ==
    IF WarningActive(warnings) THEN Some(Join(warnings[1])) ELSE None

\* the edge trigger: if current_warning_active and not previous_warning_active
ShouldNotify(previous_warning_active, current_warning_active) ==
    current_warning_active /\ ~previous_warning_active

\* try_send_warning_notification over send_message: only TelegramError is caught,
\* an httpx request error leaves the call as an exception
try_send_warning_notification(send) ==
    IF send = "sent" THEN "text"
    ELSE IF send = "telegram_error" THEN "none"
    ELSE "raise"

\* how one call of ingest_backend_metrics ends
IngestOutcome(fetch, fault, row_exists, notify, send) ==
    IF fetch = "unreachable" THEN "MonitorClientError"
    ELSE IF fetch = "no_metrics" THEN "MetricsPayloadError"
    ELSE IF fault = "schema" THEN "SchemaMismatch"
    ELSE IF fault = "operational" THEN "OperationalError"
    ELSE IF fault = "other" \/ ~row_exists THEN "Exception"
    ELSE IF notify /\ try_send_warning_notification(send) = "raise" THEN "Exception"
    ELSE "ok"

\* what the agent may answer: readings, stamped now or long ago
Readings ==
    {[cpu_temperature_c |-> None, warnings |-> None],
     [cpu_temperature_c |-> Some(852), warnings |-> Some(<< "agent warning" >>)]}

Payloads ==
    {[reported_at |-> t, cpu_temperature_c |-> r.cpu_temperature_c, ram_used_percent |-> None,
      disk_usage_percent |-> None, mounted_usage |-> None, uptime_seconds |-> None,
      warnings |-> r.warnings] :
        t \in {now, now - (MAX_RETENTION_DAYS + 1) * DaySeconds}, r \in Readings}

NoPayload ==
    [reported_at |-> now, cpu_temperature_c |-> None, ram_used_percent |-> None,
     disk_usage_percent |-> None, mounted_usage |-> None, uptime_seconds |-> None,
     warnings |-> None]

\* (fetch, payload, fault, send): the outcomes of the awaits inside one ingest call
IngestInputs ==
    {<< f, NoPayload, "none", "sent" >> : f \in {"unreachable", "no_metrics"}}
    \cup {<< "ok", NoPayload, x, "sent" >> : x \in {"schema", "operational", "other"}}
    \cup {<< "ok", p, "none", s >> : p \in Payloads, s \in {"sent", "telegram_error", "request_error"}}

\* ingest_backend_metrics(session, backend) of caller c, from its call to its end.
\* A session that was rolled back reloads the expired backend
ingest_backend_metrics(c, in) ==
    LET b == sess[c].bid
        fetch == in[1]
        payload == in[2]
        fault == in[3]
        send == in[4]
        warnings == EvaluatedWarnings(payload)
        prev == IF sess[c].migrated THEN backends[b].last_warning ELSE sess[c].last_warning
        previous_warning_active == Truthy(prev)
        current_warning_active == WarningActive(warnings)
        committed == fetch = "ok" /\ fault = "none" /\ backends[b].exists
        notify == committed /\ ShouldNotify(previous_warning_active, current_warning_active)
        cutoff == now - metric_retention_timedelta
        snapshot == build_snapshot_model(next_id, b, payload, warnings)
    IN  /\ ingest_calls' = ingest_calls + 1
        /\ IF committed
           THEN /\ snapshots' = DeleteExpired(snapshots, b, cutoff) \cup {snapshot}
                /\ backends' = [backends EXCEPT ![b].last_seen_at = Some(now),
                                                ![b].last_warning = WarningSummary(warnings)]
                /\ next_id' = next_id + 1
           ELSE UNCHANGED dbVars
        /\ sess' = [sess EXCEPT
                      ![c].result = IngestOutcome(fetch, fault, backends[b].exists, notify, send),
                      ![c].send = IF notify THEN send ELSE "none"]

\* the ingest call of caller c is running
Awaited(c) == sess[c].attempt > 0 /\ sess[c].result = "n/a"
InFlight(c, b) == Awaited(c) /\ sess[c].bid = b
Pending == Cardinality({c \in Callers : sess[c].attempt > 0})

\* an awaited ingest call ends
IngestReturns(c) ==
    /\ Awaited(c)
    /\ ingest_calls < MaxIngests
    /\ \E in \in IngestInputs : ingest_backend_metrics(c, in)
    /\ UNCHANGED << now, settings, auxVars, edited, pollerVars >>

\* ------------------------------------------------------ polling scheduler
\* the rows of _load_schedules, in primary-key order
RECURSIVE RowsOf(_)
RowsOf(ids) ==
    IF ids = {} THEN <<>>
    ELSE LET b == CHOOSE x \in ids : \A y \in ids : x <= y
         IN  << [backend_id |-> b,
                 poll_interval |-> IF backends[b].poll_interval_seconds = 0
                                   THEN MIN_INTERVAL_SECONDS
                                   ELSE backends[b].poll_interval_seconds,
                 last_seen_at |-> backends[b].last_seen_at] >>
             \o RowsOf(ids \ {b})

_load_schedules == RowsOf({b \in Backends : backends[b].exists /\ backends[b].is_active})

\* interval_seconds = max(schedule.poll_interval, MIN_INTERVAL_SECONDS)
EffectiveInterval(schedule) == Max(schedule.poll_interval, MIN_INTERVAL_SECONDS)

\* a scheduler that only looks at its own _next_run
NextDueTrackedOnly(schedule, tracked, tnow) ==
    IF tracked = None THEN tnow ELSE tracked[1]

\* a scheduler that recomputes the due time from the last contact whenever there is one
NextDueFromLastSeen(schedule, tracked, tnow) ==
    IF schedule.last_seen_at # None
    THEN schedule.last_seen_at[1] + EffectiveInterval(schedule)
    ELSE IF tracked = None THEN tnow ELSE tracked[1]

\* the due time a tick settles on for one schedule, `tracked` being _next_run.get(id)
NextDue(schedule, tracked, tnow) ==
    LET expected == schedule.last_seen_at[1] + EffectiveInterval(schedule)
        next_due == IF schedule.last_seen_at # None /\ (tracked = None \/ expected > tracked[1])
                    THEN Some(expected)
                    ELSE tracked
    IN  IF next_due = None THEN tnow ELSE next_due[1]

\* a scheduler without the short retry
DelayUncapped(schedule, success) == EffectiveInterval(schedule)

\* delay = interval_seconds if success else min(interval_seconds, 60)
Delay(schedule, success) ==
    IF success THEN EffectiveInterval(schedule)
    ELSE Min(EffectiveInterval(schedule), RETRY_CAP_SECONDS)

\* a wrapper that retries after every schema mismatch
safe_ingest_retry_always(attempt, outcome, fix) ==
    IF outcome = "ok" THEN "snapshot"
    ELSE IF outcome = "SchemaMismatch" /\ fix = "ok" THEN "retry"
    ELSE "none"

\* what safe_ingest_backend_metrics does with the end of an ingest call, `fix` being
\* how the schema fix goes: "snapshot", "none", "retry" (call ingest again) or "raise"
safe_ingest_backend_metrics(attempt, outcome, fix) ==
    IF outcome = "ok" THEN "snapshot"
    ELSE IF attempt = 1 /\ outcome = "SchemaMismatch" /\ fix = "ok" THEN "retry"
    ELSE "none"

\* kind: "skip", "poll" (_poll_backend is awaited), "done" (it returned success),
\* "raise" (it raised)
NoPollEvent == [kind |-> "n/a", success |-> FALSE]

Current == schedules[idx]

\* start()
Start ==
    /\ task # "running"
    /\ task' = "running"
    /\ stop_event' = FALSE
    /\ pc' = "top"
    /\ UNCHANGED << now, dbVars, settings, auxVars, edited, stopping, next_run, schedules, idx,
                    tick_now, poll_ev, sess, ingest_calls >>

\* stop(), up to `await self._task`
StopRequest ==
    /\ task # "none"
    /\ ~stopping
    /\ stop_event' = TRUE
    /\ stopping' = TRUE
    /\ UNCHANGED << now, dbVars, settings, auxVars, edited, task, tickVars, sess, ingest_calls >>

\* a stop() that does not await the task
StopJoinEarly ==
    /\ stopping
    /\ task' = "none"
    /\ stopping' = FALSE
    /\ next_run' = [b \in Backends |-> None]
    /\ UNCHANGED << now, dbVars, settings, auxVars, edited, stop_event, pc, schedules, idx,
                    tick_now, poll_ev, sess, ingest_calls >>

\* stop(), once the task has ended
StopJoin ==
    /\ stopping
    /\ task = "done"
    /\ task' = "none"
    /\ stopping' = FALSE
    /\ next_run' = [b \in Backends |-> None]
    /\ UNCHANGED << now, dbVars, settings, auxVars, edited, stop_event, pc, schedules, idx,
                    tick_now, poll_ev, sess, ingest_calls >>

\* _run: the loop condition, with the finally clause when it ends
RunExit ==
    /\ task = "running" /\ pc = "top"
    /\ stop_event
    /\ task' = "done"
    /\ pc' = "exited"
    /\ next_run' = [b \in Backends |-> None]
    /\ UNCHANGED << now, dbVars, settings, auxVars, edited, stop_event, stopping, schedules, idx,
                    tick_now, poll_ev, sess, ingest_calls >>

\* a tick that keeps the entries of the backends it did not load
TickLoadKeepsAll ==
    /\ task = "running" /\ pc = "top"
    /\ ~stop_event
    /\ schedules' = _load_schedules
    /\ tick_now' = now
    /\ idx' = 1
    /\ pc' = "loop"
    /\ poll_ev' = NoPollEvent
    /\ UNCHANGED << now, dbVars, settings, auxVars, edited, task, stop_event, stopping, next_run, sess,
                    ingest_calls >>

\* _tick, up to the loop over the schedules
TickLoad ==
    /\ task = "running" /\ pc = "top"
    /\ ~stop_event
    /\ schedules' = _load_schedules
    /\ tick_now' = now
    /\ next_run' = [b \in Backends |->
                      IF \E i \in 1..Len(schedules') : schedules'[i].backend_id = b
                      THEN next_run[b] ELSE None]
    /\ idx' = 1
    /\ pc' = "loop"
    /\ poll_ev' = NoPollEvent
    /\ UNCHANGED << now, dbVars, settings, auxVars, edited, task, stop_event, stopping, sess,
                    ingest_calls >>

\* _tick cannot load the schedules: the exception is logged by _run
TickLoadFails ==
    /\ task = "running" /\ pc = "top"
    /\ ~stop_event
    /\ pc' = "sleep"
    /\ UNCHANGED << now, dbVars, settings, auxVars, edited, task, stop_event, stopping, next_run,
                    schedules, idx, tick_now, poll_ev, sess, ingest_calls >>

\* the tick is at a schedule that is due: now >= next_due
IsDue(b) ==
    /\ task = "running" /\ pc = "loop" /\ idx <= Len(schedules)
    /\ Current.backend_id = b
    /\ tick_now >= NextDue(Current, next_run[b], tick_now)

\* a tick that leaves the entry of a schedule that is not due as it was
TickSkipKeepsTracked ==
    /\ task = "running" /\ pc = "loop" /\ idx <= Len(schedules)
    /\ ~(tick_now >= NextDue(Current, next_run[Current.backend_id], tick_now))
    /\ poll_ev' = [NoPollEvent EXCEPT !.kind = "skip"]
    /\ idx' = idx + 1
    /\ UNCHANGED << now, dbVars, settings, auxVars, edited, task, stop_event, stopping, pc, schedules,
                    tick_now, sess, ingest_calls, next_run >>

\* one schedule that is not due: its due time is stored
TickSkip ==
    /\ task = "running" /\ pc = "loop" /\ idx <= Len(schedules)
    /\ LET b == Current.backend_id
           due == NextDue(Current, next_run[b], tick_now)
       IN  /\ ~(tick_now >= due)
           /\ next_run' = [next_run EXCEPT ![b] = Some(due)]
    /\ poll_ev' = [NoPollEvent EXCEPT !.kind = "skip"]
    /\ idx' = idx + 1
    /\ UNCHANGED << now, dbVars, settings, auxVars, edited, task, stop_event, stopping, pc, schedules,
                    tick_now, sess, ingest_calls >>

\* _tick returns or raises: its locals are gone
EndTick ==
    /\ pc' = "sleep"
    /\ schedules' = <<>>
    /\ idx' = 1
    /\ tick_now' = 0

\* the loop over the schedules is over
TickDone ==
    /\ task = "running" /\ pc = "loop" /\ idx > Len(schedules)
    /\ EndTick
    /\ UNCHANGED << now, dbVars, settings, auxVars, edited, task, stop_event, stopping, next_run,
                    poll_ev, sess, ingest_calls >>

\* _poll_backend has returned `success`: the next run is stored
FinishPoll(success) ==
    /\ next_run' = [next_run EXCEPT ![Current.backend_id] = Some(now + Delay(Current, success))]
    /\ poll_ev' = [kind |-> "done", success |-> success]
    /\ idx' = idx + 1
    /\ pc' = "loop"
    /\ UNCHANGED << schedules, tick_now >>

\* an exception leaves _poll_backend: it ends the tick and is logged by _run
AbortTick ==
    /\ poll_ev' = [NoPollEvent EXCEPT !.kind = "raise"]
    /\ EndTick
    /\ UNCHANGED next_run

\* a due schedule, _poll_backend: session.get raises
PollGetFails ==
    /\ \E b \in Backends : IsDue(b)
    /\ AbortTick
    /\ UNCHANGED << now, dbVars, settings, auxVars, edited, task, stop_event, stopping, sess,
                    ingest_calls >>

\* a due schedule, _poll_backend: the backend is gone or inactive
PollGetInactive ==
    /\ \E b \in Backends :
         /\ IsDue(b)
         /\ ~backends[b].exists \/ ~backends[b].is_active
    /\ FinishPoll(FALSE)
    /\ UNCHANGED << now, dbVars, settings, auxVars, edited, task, stop_event, stopping, sess,
                    ingest_calls >>

\* a _poll_backend that ingests whatever the tick's list names
BeginPollUnchecked(b) ==
    /\ IsDue(b)
    /\ ingest_calls + Pending < MaxIngests
    /\ sess' = [sess EXCEPT !["poller"] = Loaded(b)]
    /\ pc' = "ingest"
    /\ poll_ev' = [NoPollEvent EXCEPT !.kind = "poll"]
    /\ UNCHANGED << now, dbVars, settings, auxVars, edited, task, stop_event, stopping, next_run,
                    schedules, idx, tick_now, ingest_calls >>

\* a due schedule, _poll_backend: the backend is loaded and
\* safe_ingest_backend_metrics is called
BeginPoll(b) ==
    /\ IsDue(b)
    /\ ingest_calls + Pending < MaxIngests
    /\ backends[b].exists /\ backends[b].is_active
    /\ sess' = [sess EXCEPT !["poller"] = Loaded(b)]
    /\ pc' = "ingest"
    /\ poll_ev' = [NoPollEvent EXCEPT !.kind = "poll"]
    /\ UNCHANGED << now, dbVars, settings, auxVars, edited, task, stop_event, stopping, next_run,
                    schedules, idx, tick_now, ingest_calls >>

TickPoll == \E b \in Backends : BeginPoll(b)

\* safe_ingest_backend_metrics with the end of an ingest call, and _poll_backend
\* with what it returns
PollReturn ==
    /\ task = "running" /\ pc = "ingest"
    /\ sess["poller"].result # "n/a"
    /\ LET s == sess["poller"]
       IN  \E fix \in {"ok", "failed"} :
             /\ (s.attempt = 1 /\ s.result = "SchemaMismatch") \/ fix = "ok"
             /\ LET result == safe_ingest_backend_metrics(s.attempt, s.result, fix)
                IN  CASE result = "retry" ->
                           /\ sess' = [sess EXCEPT !["poller"].attempt = @ + 1,
                                                   !["poller"].migrated = TRUE,
                                                   !["poller"].result = "n/a",
                                                   !["poller"].send = "n/a"]
                           /\ UNCHANGED tickVars
                      [] result = "raise" ->
                           /\ sess' = [sess EXCEPT !["poller"] = IdleSession]
                           /\ AbortTick
                      [] OTHER ->
                           /\ sess' = [sess EXCEPT !["poller"] = IdleSession]
                           /\ FinishPoll(result = "snapshot")
    /\ UNCHANGED << now, dbVars, settings, auxVars, edited, task, stop_event, stopping, ingest_calls >>

\* a loop that does not wait between two ticks
SleepNoWait ==
    /\ task = "running" /\ pc = "sleep"
    /\ pc' = "top"
    /\ UNCHANGED << now, dbVars, settings, auxVars, edited, task, stop_event, stopping, next_run,
                    schedules, idx, tick_now, poll_ev, sess, ingest_calls >>

\* _sleep: the stop event, or the tick period
Sleep ==
    /\ task = "running" /\ pc = "sleep"
    /\ IF stop_event
       THEN now' = now
       ELSE /\ now + DEFAULT_TICK_SECONDS <= MaxTime
            /\ now' = now + DEFAULT_TICK_SECONDS
    /\ pc' = "top"
    /\ UNCHANGED << dbVars, settings, auxVars, edited, task, stop_event, stopping, next_run,
                    schedules, idx, tick_now, poll_ev, sess, ingest_calls >>

\* ------------------------------------------------ the refresh endpoint
\* refresh_backend_metrics: session.get, then ingest_backend_metrics is called
RefreshGet(b) ==
    /\ sess["refresh"].attempt = 0
    /\ ingest_calls + Pending < MaxIngests
    /\ backends[b].exists
    /\ sess' = [sess EXCEPT !["refresh"] = Loaded(b)]
    /\ UNCHANGED << now, dbVars, settings, auxVars, edited, pollerVars, ingest_calls >>

\* refresh_backend_metrics: the response, or the error, once the ingest call ended
RefreshRespond ==
    /\ sess["refresh"].result # "n/a"
    /\ sess' = [sess EXCEPT !["refresh"] = IdleSession]
    /\ UNCHANGED << now, dbVars, settings, auxVars, edited, pollerVars, ingest_calls >>

\* ------------------------------------------------------- environment
\* time passes while a request to an agent is awaited
AdvanceClock ==
    /\ \E c \in Callers : Awaited(c)
    /\ \E d \in ClockSteps :
         /\ now + d <= MaxTime
         /\ now' = now + d
    /\ UNCHANGED << dbVars, settings, auxVars, edited, pollerVars, sess, ingest_calls >>

\* update_backend: the active flag
update_backend(b) ==
    /\ ~edited
    /\ backends[b].exists
    /\ backends' = [backends EXCEPT ![b].is_active = ~@]
    /\ edited' = TRUE
    /\ UNCHANGED << now, snapshots, next_id, settings, auxVars, pollerVars, sess, ingest_calls >>

\* the poll intervals an administrator sets: MonitoredBackendUpdate wants >= 30
PollIntervals == {MIN_INTERVAL_SECONDS, 600}

\* update_backend: the poll interval
update_poll_interval(b, seconds) ==
    /\ ~edited
    /\ backends[b].exists
    /\ backends[b].poll_interval_seconds # seconds
    /\ backends' = [backends EXCEPT ![b].poll_interval_seconds = seconds]
    /\ edited' = TRUE
    /\ UNCHANGED << now, snapshots, next_id, settings, auxVars, pollerVars, sess, ingest_calls >>

\* delete_backend: the row goes, and its snapshots with it
delete_backend(b) ==
    /\ ~edited
    /\ backends[b].exists
    /\ backends' = [backends EXCEPT ![b].exists = FALSE]
    /\ snapshots' = {s \in snapshots : s.backend_id # b}
    /\ edited' = TRUE
    /\ UNCHANGED << now, next_id, settings, auxVars, pollerVars, sess, ingest_calls >>

\* ------------------------------------- overlapping start() and stop()
\* Every _run task is kept by number, and a tick is one step: "unborn" (not
\* created), "top" (at the loop condition), "tick", "sleep", "exited"
LoopIds == 1..MaxLoops
StopCallers == {1, 2}

Running(i) == loops[i] \in {"top", "tick", "sleep"}

\* start(): nothing while the task of _task has not ended, else a new task
start ==
    /\ IF poller_task # 0 /\ loops[poller_task] # "exited"
       THEN UNCHANGED << stop_event, loops, poller_task >>
       ELSE \E i \in LoopIds :
              /\ loops[i] = "unborn"
              /\ \A o \in LoopIds : o < i => loops[o] # "unborn"
              /\ stop_event' = FALSE
              /\ loops' = [loops EXCEPT ![i] = "top"]
              /\ poller_task' = i
    /\ UNCHANGED << now, dbVars, settings, edited, task, stopping, tickVars, sess,
                    ingest_calls, storeVars, tileVars, stops >>

\* stop(), up to `await self._task`; a task that has ended is not waited for
stop(c) ==
    /\ stops[c] = 0
    /\ IF poller_task = 0
       THEN UNCHANGED << stop_event, poller_task, stops, next_run >>
       ELSE /\ stop_event' = TRUE
            /\ IF loops[poller_task] = "exited"
               THEN /\ poller_task' = 0
                    /\ next_run' = [b \in Backends |-> None]
                    /\ UNCHANGED stops
               ELSE /\ stops' = [stops EXCEPT ![c] = poller_task]
                    /\ UNCHANGED << poller_task, next_run >>
    /\ UNCHANGED << now, dbVars, settings, edited, task, stopping, pc, schedules, idx,
                    tick_now, poll_ev, sess, ingest_calls, storeVars, tileVars, loops >>

\* stop(), after `await self._task`: the awaited task has ended
stop_returns(c) ==
    /\ stops[c] # 0
    /\ loops[stops[c]] = "exited"
    /\ poller_task' = 0
    /\ next_run' = [b \in Backends |-> None]
    /\ stops' = [stops EXCEPT ![c] = 0]
    /\ UNCHANGED << now, dbVars, settings, edited, task, stop_event, stopping, pc, schedules,
                    idx, tick_now, poll_ev, sess, ingest_calls, storeVars, tileVars, loops >>

\* _run of task i: the loop condition, with the finally clause when it ends
_run_condition(i) ==
    /\ loops[i] = "top"
    /\ IF stop_event
       THEN /\ loops' = [loops EXCEPT ![i] = "exited"]
            /\ next_run' = [b \in Backends |-> None]
       ELSE /\ loops' = [loops EXCEPT ![i] = "tick"]
            /\ UNCHANGED next_run
    /\ UNCHANGED << now, dbVars, settings, edited, task, stop_event, stopping, pc, schedules,
                    idx, tick_now, poll_ev, sess, ingest_calls, storeVars, tileVars,
                    poller_task, stops >>

\* _run of task i: its tick returns or raises (what a tick does to the targets
\* is the subject of the tick actions above, and no part of this step)
_run_tick(i) ==
    /\ loops[i] = "tick"
    /\ loops' = [loops EXCEPT ![i] = "sleep"]
    /\ UNCHANGED << coreVars, storeVars, tileVars, poller_task, stops >>

\* _run of task i: _sleep returns, by the stop event or the tick period
_run_sleep(i) ==
    /\ loops[i] = "sleep"
    /\ loops' = [loops EXCEPT ![i] = "top"]
    /\ UNCHANGED << coreVars, storeVars, tileVars, poller_task, stops >>

StartStopNext ==
    \/ start
    \/ \E c \in StopCallers : stop(c)
    \/ \E c \in StopCallers : stop_returns(c)
    \/ \E i \in LoopIds : _run_condition(i)
    \/ \E i \in LoopIds : _run_tick(i)
    \/ \E i \in LoopIds : _run_sleep(i)

\* ------------------------------------------- the agent's in-memory store
\* settings.history_retention(), at the least value its validator lets through
history_retention == MIN_HISTORY_RETENTION

StoreClockSteps == {40}

\* how long before the call the payloads passed to record() were reported
ReportAges == {0, MIN_HISTORY_RETENTION + 1}

\* a copy that shares the object it was asked to copy
model_share(h, r) == [heap |-> h, ref |-> r]

\* payload.model_copy(deep=True): a new object with the same content
model_copy(h, r) == [heap |-> Append(h, h[r]), ref |-> Len(h) + 1]

\* _prune_locked, first loop: popleft while the oldest entry is older than the cutoff
RECURSIVE DropExpired(_, _, _)
DropExpired(its, h, retention_cutoff) ==
    IF its # <<>> /\ h[Head(its)].reported_at < retention_cutoff
    THEN DropExpired(Tail(its), h, retention_cutoff)
    ELSE its

\* a second loop that pops on the right
RECURSIVE DropNewest(_, _)
DropNewest(its, max_entries) ==
    IF Len(its) > max_entries
    THEN DropNewest(SubSeq(its, 1, Len(its) - 1), max_entries)
    ELSE its

\* _prune_locked, second loop: popleft while there are more than max_entries
RECURSIVE DropExcess(_, _)
DropExcess(its, max_entries) ==
    IF Len(its) > max_entries
    THEN DropExcess(Tail(its), max_entries)
    ELSE its

\* _prune_locked
_prune_locked(its, h) ==
    DropExcess(DropExpired(its, h, store_now - history_retention), MaxEntries)

\* a caller builds a payload and passes it to record(); it keeps the payload
record(age) ==
    /\ Len(recorded) < MaxRecords
    /\ LET value == [reported_at |-> store_now - age, hostname |-> "host"]
           payload == Len(heap) + 1
           snapshot == model_copy(Append(heap, value), payload)
       IN  /\ heap' = snapshot.heap
           /\ items' = _prune_locked(Append(items, snapshot.ref), snapshot.heap)
           /\ held' = held \cup {payload}
           /\ recorded' = Append(recorded, value)
    /\ store_op' = "record"
    /\ UNCHANGED << coreVars, tileVars, loopVars, store_now, returned >>

\* latest(): None, or a copy of the last entry for the caller
latest ==
    /\ Cardinality(held) - Len(recorded) < MaxReads
    /\ IF items = <<>>
       THEN /\ returned' = None
            /\ UNCHANGED << heap, held >>
       ELSE LET copy == model_copy(heap, items[Len(items)])
            IN  /\ heap' = copy.heap
                /\ held' = held \cup {copy.ref}
                /\ returned' = Some(copy.heap[copy.ref])
    /\ store_op' = "latest"
    /\ UNCHANGED << coreVars, tileVars, loopVars, store_now, items, recorded >>

\* prune()
prune ==
    /\ items' = _prune_locked(items, heap)
    /\ store_op' = "prune"
    /\ UNCHANGED << coreVars, tileVars, loopVars, store_now, heap, held, recorded, returned >>

\* a caller changes an object it holds
Mutate(r) ==
    /\ r \in held
    /\ heap[r].hostname # "mutated"
    /\ heap' = [heap EXCEPT ![r].hostname = "mutated"]
    /\ store_op' = "mutate"
    /\ UNCHANGED << coreVars, tileVars, loopVars, store_now, held, items, recorded, returned >>

\* time passes on the agent
StoreClock ==
    /\ \E d \in StoreClockSteps :
         /\ store_now + d <= MaxStoreTime
         /\ store_now' = store_now + d
    /\ store_op' = "clock"
    /\ UNCHANGED << coreVars, tileVars, loopVars, heap, held, items, recorded, returned >>

\* MetricsRepository(max_entries), then initialize()
StoreInit ==
    /\ store_now = 0
    /\ heap = <<>>
    /\ held = {}
    /\ items = <<>>
    /\ recorded = <<>>
    /\ returned = None
    /\ store_op = "prune"

StoreNext ==
    \/ \E age \in ReportAges : record(age)
    \/ latest
    \/ prune
    \/ \E r \in 1..(2 * MaxRecords + MaxReads) : Mutate(r)
    \/ StoreClock

\* -------------------------------------------------- dashboard requests
TileIds == 1..MaxTiles

Requests == {1, 2}

\* list: the tile definitions the request loaded, with their ids; pos: the entry
\* of list the loop is at; phase: "idle", "loop", or "probe" while the ping of
\* _check_ping runs; now: the `now` _check_ping read; latest: the snapshot the
\* batched lookup gave for each backend; tiles: the tile views built so far
IdleRequest ==
    [phase |-> "idle", list |-> <<>>, pos |-> 1, now |-> 0,
     latest |-> [b \in Backends |-> None], tiles |-> <<>>]

_PING_METRICS == {"ping_result", "ping_delay_ms"}

\* the times at which the requests read the clock
PingTimes == {0, 3, 60, 120}

\* the rows of fetch_quick_status_tiles: display_order is 0 everywhere, so by id
RECURSIVE ItemsOf(_)
ItemsOf(ids) ==
    IF ids = {} THEN <<>>
    ELSE LET id == CHOOSE x \in ids : \A y \in ids : x <= y
         IN  << [id |-> id, item |-> q_items[id][1]] >> \o ItemsOf(ids \ {id})

\* a cache that is still good at the very age of the interval
CacheFreshInclusive(cached, tnow, item) ==
    LET interval == Max(5, IF item.ping_interval_seconds = 0 THEN 60
                           ELSE item.ping_interval_seconds)
    IN  cached # None /\ tnow - cached[1].checked_at <= interval

\* _check_ping: cached and now - cached.checked_at < timedelta(seconds=interval)
CacheFresh(cached, tnow, item) ==
    LET interval == Max(5, IF item.ping_interval_seconds = 0 THEN 60
                           ELSE item.ping_interval_seconds)
    IN  cached # None /\ tnow - cached[1].checked_at < interval

\* what ping3.ping gives in its thread: seconds as milliseconds, or None (no
\* answer, or an exception)
PingOutcomes == {None, Some(20)}

\* PingCheckResult(checked_at=now, success=success, latency_ms=latency_ms)
PingCheckResult(tnow, result) ==
    [checked_at |-> tnow, success |-> result # None, latency_ms |-> result]

\* ------------------------------------------------------ tile derivation
_PERCENT_METRICS == {"disk_usage_percent", "ram_used_percent", "mount_used_percent"}
_REVERSE_THRESHOLD_METRICS == {"last_restart"}

\* A tile value is held in the unit its source has: percentages and temperatures
\* in tenths, the hours since the restart in seconds, the latency in milliseconds,
\* the liveness result as 1 or 0.  UnitsPer of them make one unit of a threshold
UnitsPer(metric_key) ==
    IF metric_key = "last_restart" THEN 3600
    ELSE IF metric_key \in _PING_METRICS THEN 1
    ELSE Decimals

\* round(n / d), ties to the even neighbour
RoundHalfEven(n, d) ==
    LET q == n \div d
        r == n % d
    IN  IF 2 * r < d THEN q
        ELSE IF 2 * r > d THEN q + 1
        ELSE IF q % 2 = 0 THEN q ELSE q + 1

\* the first entry of mounts whose mount_point is the path: its used_percent
RECURSIVE FirstMount(_, _)
FirstMount(mounts, path) ==
    IF mounts = <<>> THEN None
    ELSE IF Head(mounts).mount_point = Some(path) THEN Head(mounts).used_percent
    ELSE FirstMount(Tail(mounts), path)

_extract_mount_used_percent(snapshot, mount_path) ==
    IF mount_path = None \/ mount_path[1] = "" THEN None
    ELSE FirstMount(IF snapshot.mounted_usage # None THEN snapshot.mounted_usage[1] ELSE <<>>,
                    mount_path[1])

\* uptime_seconds / 3600, held in seconds
_extract_uptime_hours(snapshot) == snapshot.uptime_seconds

\* the selectors on the snapshot columns the model carries
_metric_value(snapshot, metric_key, mount_path) ==
    CASE metric_key = "disk_usage_percent" -> snapshot.disk_usage_percent
      [] metric_key = "ram_used_percent" -> snapshot.ram_used_percent
      [] metric_key = "cpu_temperature_c" -> snapshot.cpu_temperature_c
      [] metric_key = "mount_used_percent" ->
             _extract_mount_used_percent(snapshot, mount_path)
      [] metric_key = "last_restart" -> _extract_uptime_hours(snapshot)
      [] OTHER -> None

\* days, hours and minutes of a duration held in seconds
_format_uptime_hours(value) ==
    LET total_minutes == RoundHalfEven(value, 60)
        days == total_minutes \div 1440
        rem_minutes == total_minutes % 1440
        hours == rem_minutes \div 60
        minutes == rem_minutes % 60
    IN  IF days > 0 THEN ToString(days) \o "d " \o ToString(hours) \o "h"
        ELSE IF hours > 0
             THEN IF minutes # 0
                  THEN ToString(hours) \o "h " \o ToString(minutes) \o "m"
                  ELSE ToString(hours) \o "h"
        ELSE ToString(minutes) \o "m"

\* the text of a value; the dash of an absent value is written "-"
_format_value(metric_key, value) ==
    IF value = None THEN "-"
    ELSE IF metric_key \in _PERCENT_METRICS
         THEN ToString(RoundHalfEven(value[1], Decimals)) \o "%"
    ELSE IF metric_key = "cpu_temperature_c" THEN Fmt1(value[1]) \o "C"
    ELSE IF metric_key = "last_restart" THEN _format_uptime_hours(value[1])
    ELSE IF metric_key = "ping_delay_ms" THEN ToString(value[1]) \o "ms"
    ELSE ToString(value[1]) \o ".00"

\* a status that takes a value at a threshold as still below it
_resolve_status_strict(value, warning_threshold, critical_threshold, metric_key) ==
    LET units == UnitsPer(metric_key)
    IN  IF value = None THEN "unknown"
        ELSE IF metric_key \in _REVERSE_THRESHOLD_METRICS
             THEN IF value[1] < critical_threshold * units THEN "critical"
                  ELSE IF value[1] < warning_threshold * units THEN "warn"
                  ELSE "ok"
        ELSE IF value[1] > critical_threshold * units THEN "critical"
        ELSE IF value[1] > warning_threshold * units THEN "warn"
        ELSE "ok"

_resolve_status(value, warning_threshold, critical_threshold, metric_key) ==
    LET units == UnitsPer(metric_key)
    IN  IF value = None THEN "unknown"
        ELSE IF metric_key \in _REVERSE_THRESHOLD_METRICS
             THEN IF value[1] <= critical_threshold * units THEN "critical"
                  ELSE IF value[1] <= warning_threshold * units THEN "warn"
                  ELSE "ok"
        ELSE IF value[1] >= critical_threshold * units THEN "critical"
        ELSE IF value[1] >= warning_threshold * units THEN "warn"
        ELSE "ok"

\* a liveness view that leaves a failed latency check at the status of the snapshot
LivenessViewUnforced(tile, item, ping_result) ==
    IF ping_result = None
    THEN [tile EXCEPT !.status = "unknown", !.display_value = "-", !.value = None,
                      !.reported_at = None]
    ELSE LET ping == ping_result[1]
             checked == [tile EXCEPT !.reported_at = Some(ping.checked_at)]
         IN  IF item.metric_key = "ping_result"
             THEN [checked EXCEPT
                     !.status = IF ping.success THEN "ok" ELSE "critical",
                     !.display_value = IF ping.success THEN "OK" ELSE "NOK",
                     !.value = IF ping.success THEN Some(1) ELSE Some(0)]
             ELSE IF ping.success /\ ping.latency_ms # None
             THEN [checked EXCEPT
                     !.value = ping.latency_ms,
                     !.display_value = _format_value(item.metric_key, ping.latency_ms),
                     !.status = _resolve_status(ping.latency_ms, item.warning_threshold,
                                                item.critical_threshold, item.metric_key)]
             ELSE [checked EXCEPT !.value = None, !.display_value = "timeout"]

\* build_quick_status_tiles, the branch of a liveness tile: `tile` is what the
\* snapshot gave, `ping_result` what _check_ping returned
LivenessView(tile, item, ping_result) ==
    IF ping_result = None
    THEN [tile EXCEPT !.status = "unknown", !.display_value = "-", !.value = None,
                      !.reported_at = None]
    ELSE LET ping == ping_result[1]
             checked == [tile EXCEPT !.reported_at = Some(ping.checked_at)]
         IN  IF item.metric_key = "ping_result"
             THEN [checked EXCEPT
                     !.status = IF ping.success THEN "ok" ELSE "critical",
                     !.display_value = IF ping.success THEN "OK" ELSE "NOK",
                     !.value = IF ping.success THEN Some(1) ELSE Some(0)]
             ELSE IF ping.success /\ ping.latency_ms # None
             THEN [checked EXCEPT
                     !.value = ping.latency_ms,
                     !.display_value = _format_value(item.metric_key, ping.latency_ms),
                     !.status = _resolve_status(ping.latency_ms, item.warning_threshold,
                                                item.critical_threshold, item.metric_key)]
             ELSE [checked EXCEPT !.value = None, !.display_value = "timeout",
                                  !.status = "critical"]

\* the tile view of one definition: the body of the loop of build_quick_status_tiles,
\* `snapshot` being snapshots.get(item.backend_id) and `ping_result` what _check_ping
\* returned (None for a tile that is not a liveness tile)
QuickStatusTileRead(id, item, snapshot, ping_result) ==
    LET value == IF snapshot # None
                 THEN _metric_value(snapshot[1], item.metric_key, item.mount_path)
                 ELSE None
        tile == [id |-> id, metric_key |-> item.metric_key, value |-> value,
                 display_value |-> _format_value(item.metric_key, value),
                 status |-> _resolve_status(value, item.warning_threshold,
                                            item.critical_threshold, item.metric_key),
                 reported_at |-> IF snapshot # None THEN Some(snapshot[1].reported_at)
                                 ELSE None]
    IN  IF item.metric_key \notin _PING_METRICS THEN tile
        ELSE LivenessView(tile, item, ping_result)

\* the rows of the batched lookup: of each backend the snapshots with its latest
\* report time
LatestOf(b) ==
    {s \in snapshots : /\ s.backend_id = b
                       /\ \A o \in snapshots : o.backend_id = b => o.reported_at <= s.reported_at}

\* fetch_quick_status_tiles: the definitions are loaded, build_quick_status_tiles begins
BuildStart(r) ==
    /\ reqs[r].phase = "idle"
    /\ \E found \in [Backends -> {None} \cup {Some(s) : s \in snapshots}] :
         /\ \A b \in Backends :
               IF LatestOf(b) = {} THEN found[b] = None
               ELSE found[b] # None /\ found[b][1] \in LatestOf(b)
         /\ reqs' = [reqs EXCEPT ![r] =
                       [phase |-> "loop",
                        list |-> ItemsOf({id \in TileIds : q_items[id] # None}),
                        pos |-> 1, now |-> 0, latest |-> found, tiles |-> <<>>]]
    /\ UNCHANGED << coreVars, storeVars, loopVars, q_items, tile_resp, ping_now, ping_cache >>

\* the loop is at entry i, not a liveness tile: the tile is derived from the snapshot
DeriveTile(r, i) ==
    /\ reqs[r].phase = "loop" /\ reqs[r].pos = i /\ i <= Len(reqs[r].list)
    /\ reqs[r].list[i].item.metric_key \notin _PING_METRICS
    /\ LET entry == reqs[r].list[i]
           tile == QuickStatusTileRead(entry.id, entry.item,
                                       reqs[r].latest[entry.item.backend_id], None)
       IN  reqs' = [reqs EXCEPT ![r].pos = i + 1, ![r].tiles = Append(@, tile)]
    /\ UNCHANGED << coreVars, storeVars, loopVars, q_items, tile_resp, ping_now, ping_cache >>

DeriveSnapshotTile(r) == \E i \in TileIds : DeriveTile(r, i)

\* the loop is at a liveness tile: _check_ping up to the ping; with a fresh cache
\* the tile is derived from it
CheckPing(r) ==
    /\ reqs[r].phase = "loop" /\ reqs[r].pos <= Len(reqs[r].list)
    /\ LET entry == reqs[r].list[reqs[r].pos]
       IN  /\ entry.item.metric_key \in _PING_METRICS
           /\ entry.item.ping_endpoint # None
           /\ IF CacheFresh(ping_cache[entry.id], ping_now, entry.item)
              THEN LET tile == QuickStatusTileRead(entry.id, entry.item,
                                                   reqs[r].latest[entry.item.backend_id],
                                                   ping_cache[entry.id])
                   IN  reqs' = [reqs EXCEPT ![r].pos = @ + 1, ![r].tiles = Append(@, tile)]
              ELSE reqs' = [reqs EXCEPT ![r].phase = "probe", ![r].now = ping_now]
    /\ UNCHANGED << coreVars, storeVars, loopVars, q_items, tile_resp, ping_now, ping_cache >>

\* the ping has ended: the result is cached and the tile derived from it
ProbeDone(r) ==
    /\ reqs[r].phase = "probe"
    /\ LET entry == reqs[r].list[reqs[r].pos]
       IN  \E result \in PingOutcomes :
             LET checked == Some(PingCheckResult(reqs[r].now, result))
                 tile == QuickStatusTileRead(entry.id, entry.item,
                                             reqs[r].latest[entry.item.backend_id], checked)
             IN  /\ ping_cache' = [ping_cache EXCEPT ![entry.id] = checked]
                 /\ reqs' = [reqs EXCEPT ![r].phase = "loop", ![r].pos = @ + 1,
                                         ![r].now = 0, ![r].tiles = Append(@, tile)]
    /\ UNCHANGED << coreVars, storeVars, loopVars, q_items, tile_resp, ping_now >>

\* build_quick_status_tiles returns its tiles
BuildEnd(r) ==
    /\ reqs[r].phase = "loop" /\ reqs[r].pos > Len(reqs[r].list)
    /\ reqs' = [reqs EXCEPT ![r] = IdleRequest]
    /\ UNCHANGED << coreVars, storeVars, loopVars, q_items, tile_resp, ping_now, ping_cache >>

\* time passes for the dashboard
PingClock ==
    /\ \E t \in PingTimes :
         /\ t > ping_now /\ t <= MaxPingTime
         /\ ping_now' = t
    /\ UNCHANGED << coreVars, storeVars, loopVars, q_items, tile_resp, ping_cache, reqs >>

PingNext ==
    \/ \E r \in Requests : BuildStart(r)
    \/ \E r \in Requests : DeriveSnapshotTile(r)
    \/ \E r \in Requests : CheckPing(r)
    \/ \E r \in Requests : ProbeDone(r)
    \/ \E r \in Requests : BuildEnd(r)
    \/ PingClock

\* ------------------------------------------------- status tile definitions
_REQUIRES_PING_ENDPOINT == {"ping_result", "ping_delay_ms"}
_LOWER_IS_WORSE == {"last_restart"}

\* the Field constraints of QuickStatusItemBase on the fields the payloads vary
FieldsValid(p) ==
    /\ p.warning_threshold >= 0
    /\ p.critical_threshold >= 0
    /\ p.ping_interval_seconds >= 5 /\ p.ping_interval_seconds <= 86400

\* (self.x or "").strip() is not empty; the payloads carry no blank strings
NotBlank(o) == o # None /\ o[1] # ""

\* a validator that does not look at the thresholds of the lower-is-worse selector
validate_item_one_direction(p) ==
    LET ping == p.metric_key \in _REQUIRES_PING_ENDPOINT
        normal == [p EXCEPT
                     !.ping_endpoint = IF ping THEN @ ELSE None,
                     !.ping_interval_seconds = IF ping THEN @ ELSE 60,
                     !.mount_path = IF p.metric_key = "mount_used_percent" THEN @ ELSE None]
    IN  IF ping /\ ~NotBlank(p.ping_endpoint) THEN None
        ELSE IF /\ p.metric_key # "ping_result"
                /\ p.metric_key \notin _LOWER_IS_WORSE
                /\ p.warning_threshold >= p.critical_threshold
             THEN None
        ELSE IF p.metric_key = "mount_used_percent" /\ ~NotBlank(p.mount_path) THEN None
        ELSE Some(normal)

\* QuickStatusItemBase.validate_item: None for a ValueError, else the payload as
\* the validator leaves it
validate_item(p) ==
    LET ping == p.metric_key \in _REQUIRES_PING_ENDPOINT
        normal == [p EXCEPT
                     !.ping_endpoint = IF ping THEN @ ELSE None,
                     !.ping_interval_seconds = IF ping THEN @ ELSE 60,
                     !.mount_path = IF p.metric_key = "mount_used_percent" THEN @ ELSE None]
    IN  IF ping /\ ~NotBlank(p.ping_endpoint) THEN None
        ELSE IF /\ p.metric_key # "ping_result"
                /\ IF p.metric_key \in _LOWER_IS_WORSE
                   THEN p.warning_threshold <= p.critical_threshold
                   ELSE p.warning_threshold >= p.critical_threshold
             THEN None
        ELSE IF p.metric_key = "mount_used_percent" /\ ~NotBlank(p.mount_path) THEN None
        ELSE Some(normal)

\* the request bodies of the quick-status endpoints
TilePayloads ==
    {[backend_id |-> b, metric_key |-> k, mount_path |-> None,
      warning_threshold |-> t[1], critical_threshold |-> t[2],
      ping_endpoint |-> e, ping_interval_seconds |-> 60] :
        b \in {1, 3},
        k \in {"cpu_temperature_c", "last_restart", "ping_result", "ping_delay_ms"},
        t \in {<< 1, 2 >>, << 2, 1 >>, << 2, 2 >>},
        e \in {None, Some("10.0.0.1")}}
    \cup {[backend_id |-> 1, metric_key |-> "mount_used_percent", mount_path |-> m,
           warning_threshold |-> 1, critical_threshold |-> 2,
           ping_endpoint |-> None, ping_interval_seconds |-> i] :
            m \in {None, Some("/data")}, i \in {4, 60}}

\* session.get(MonitoredBackend, payload.backend_id)
BackendFound(b) == b \in Backends /\ backends[b].exists

\* create_quick_status over create_quick_status_item
create_quick_status(payload) ==
    /\ \E id \in TileIds :
         /\ q_items[id] = None
         /\ \A o \in TileIds : o > id => q_items[o] = None
         /\ LET item == validate_item(payload)
            IN  IF ~FieldsValid(payload) \/ item = None
                THEN tile_resp' = 422 /\ UNCHANGED q_items
                ELSE IF ~BackendFound(payload.backend_id)
                THEN tile_resp' = 404 /\ UNCHANGED q_items
                ELSE /\ tile_resp' = 201
                     /\ q_items' = [q_items EXCEPT ![id] = item]
    /\ UNCHANGED << coreVars, storeVars, loopVars, ping_now, ping_cache, reqs >>

\* update_quick_status over update_quick_status_item
update_quick_status(item_id, payload) ==
    /\ LET item == validate_item(payload)
       IN  IF ~FieldsValid(payload) \/ item = None
           THEN tile_resp' = 422 /\ UNCHANGED q_items
           ELSE IF q_items[item_id] = None \/ ~BackendFound(payload.backend_id)
           THEN tile_resp' = 404 /\ UNCHANGED q_items
           ELSE /\ tile_resp' = 200
                /\ q_items' = [q_items EXCEPT ![item_id] = item]
    /\ UNCHANGED << coreVars, storeVars, loopVars, ping_now, ping_cache, reqs >>

\* a liveness tile of backend 1
PingTile(key, interval) ==
    [backend_id |-> 1, metric_key |-> key, mount_path |-> None,
     warning_threshold |-> 1, critical_threshold |-> 2,
     ping_endpoint |-> Some("10.0.0.1"), ping_interval_seconds |-> interval]

\* a tile on a metric of the snapshots of backend 1
MetricTile(key) ==
    [backend_id |-> 1, metric_key |-> key, mount_path |-> None,
     warning_threshold |-> 1, critical_threshold |-> 2,
     ping_endpoint |-> None, ping_interval_seconds |-> 60]

\* the engine with a liveness tile and a tile on a snapshot metric stored
TileStart(first, second) ==
    /\ q_items = [id \in TileIds |->
                    IF id = 1 THEN Some(first)
                    ELSE IF id = 2 THEN Some(second)
                    ELSE None]
    /\ tile_resp = 200
    /\ ping_now = 0
    /\ ping_cache = [id \in TileIds |-> None]
    /\ reqs = [r \in Requests |-> IdleRequest]

TileInit == TileStart(PingTile("ping_delay_ms", 60), MetricTile("cpu_temperature_c"))

TileDefNext ==
    \/ \E payload \in TilePayloads : create_quick_status(payload)
    \/ \E item_id \in TileIds, payload \in TilePayloads : update_quick_status(item_id, payload)

\* ------------------------------------------------- alerting configuration
\* a pass over every snapshot, the earlier ones too
recalculate_all_snapshot_warnings(thresholds) ==
    /\ snapshots' = {[s EXCEPT !.warnings = OrNone(detect_warnings(s, thresholds))] :
                        s \in snapshots}
    /\ \E last \in [Backends -> snapshots \cup {None}] :
         /\ \A b \in Backends :
               IF LatestOf(b) = {} THEN last[b] = None ELSE last[b] \in LatestOf(b)
         /\ backends' = [b \in Backends |->
                           IF last[b] = None \/ ~backends[b].exists THEN backends[b]
                           ELSE [backends[b] EXCEPT !.last_warning =
                                   WarningSummary(OrNone(detect_warnings(last[b],
                                                                         thresholds)))]]

\* recalculate_latest_snapshot_warnings: the rows of the join are rewritten, and
\* each backend gets the summary of the row of its own the loop comes to last
recalculate_latest_snapshot_warnings(thresholds) ==
    LET joined == UNION {LatestOf(b) : b \in Backends}
    IN  /\ snapshots' = (snapshots \ joined)
                           \cup {[s EXCEPT !.warnings =
                                             OrNone(detect_warnings(s, thresholds))] :
                                    s \in joined}
        /\ \E last \in [Backends -> snapshots \cup {None}] :
             /\ \A b \in Backends :
                   IF LatestOf(b) = {} THEN last[b] = None ELSE last[b] \in LatestOf(b)
             /\ backends' = [b \in Backends |->
                               IF last[b] = None \/ ~backends[b].exists THEN backends[b]
                               ELSE [backends[b] EXCEPT !.last_warning =
                                       WarningSummary(OrNone(detect_warnings(last[b],
                                                                             thresholds)))]]

\* WarnThresholds values an administrator may send, in tenths
ThresholdChoices ==
    [cpu_temperature_c : {None, Some(860)},
     ram_used_percent : {None, Some(950)},
     disk_usage_percent : {None, Some(930)},
     mounted_usage_percent : {None, Some(910)}]

\* the bodies of PUT /telegram/settings, as far as the thresholds go
SettingsPayloads ==
    {[warn_thresholds |-> w] : w \in {None} \cup {Some(t) : t \in ThresholdChoices}}

\* update_settings: the settings row is written, and with thresholds in the
\* request the latest snapshots are evaluated again
update_settings(payload) ==
    /\ settings' = [settings EXCEPT !.warn_thresholds = payload.warn_thresholds]
    /\ IF payload.warn_thresholds # None /\ settings'.warn_thresholds # None
       THEN recalculate_latest_snapshot_warnings(settings'.warn_thresholds[1])
       ELSE UNCHANGED << backends, snapshots >>
    /\ UNCHANGED << now, next_id, auxVars, edited, pollerVars, sess, ingest_calls >>

\* ---------------------------------------------------------- the system
SeenBefore == -25

\* rows are the snapshots an earlier run of the process left: a backend with
\* rows was polled by that run, a backend without never
CoreInit(rows) ==
    /\ now = 0
    /\ backends = [b \in Backends |->
                     LET mine == {s \in rows : s.backend_id = b}
                         newest == CHOOSE s \in mine :
                                       \A o \in mine : o.reported_at <= s.reported_at
                         fresh == NewBackend(IF b = 1 THEN 20 ELSE 600)
                     IN  IF mine = {} THEN fresh
                         ELSE [fresh EXCEPT !.last_seen_at = Some(SeenBefore),
                                            !.last_warning = WarningSummary(newest.warnings)]]
    /\ snapshots = rows
    /\ next_id = Cardinality(rows) + 1
    /\ settings = [warn_thresholds |-> None, metric_retention_days |-> Some(DEFAULT_RETENTION_DAYS)]
    /\ edited = FALSE
    /\ task = "none"
    /\ stop_event = FALSE
    /\ stopping = FALSE
    /\ next_run = [b \in Backends |-> None]
    /\ pc = "init"
    /\ schedules = <<>>
    /\ idx = 1
    /\ tick_now = 0
    /\ poll_ev = NoPollEvent
    /\ sess = [c \in Callers |-> IdleSession]
    /\ ingest_calls = 0
    /\ loops = [i \in LoopIds |-> "unborn"]
    /\ poller_task = 0
    /\ stops = [c \in StopCallers |-> 0]

Init ==
    /\ CoreInit({[build_snapshot_model(1, 1, NoPayload, None) EXCEPT
                    !.reported_at = SeenBefore]})
    /\ StoreInit
    /\ TileInit

\* what the agent of backend 1 reported at its last contact, and a minute before
Reports ==
    {[NoPayload EXCEPT !.reported_at = SeenBefore],
     [NoPayload EXCEPT !.reported_at = SeenBefore,
                       !.cpu_temperature_c = Some(852),
                       !.mounted_usage = Some(<< [mount_point |-> Some("/data"),
                                                  used_percent |-> Some(920)],
                                                 [mount_point |-> Some("/srv"),
                                                  used_percent |-> Some(400)] >>),
                       !.uptime_seconds = Some(2 * 3600)],
     [NoPayload EXCEPT !.reported_at = SeenBefore,
                       !.cpu_temperature_c = Some(800),
                       !.mounted_usage = Some(<< [mount_point |-> Some("/srv"),
                                                  used_percent |-> None],
                                                 [mount_point |-> Some("/data"),
                                                  used_percent |-> Some(950)] >>),
                       !.uptime_seconds = Some(24 * 3600)],
     [NoPayload EXCEPT !.reported_at = SeenBefore,
                       !.cpu_temperature_c = Some(852),
                       !.ram_used_percent = Some(910),
                       !.disk_usage_percent = Some(950),
                       !.mounted_usage = Some(<< [mount_point |-> Some("/data"),
                                                  used_percent |-> Some(900)],
                                                 [mount_point |-> Some("/srv"),
                                                  used_percent |-> Some(400)] >>)]}

EarlierReport ==
    [NoPayload EXCEPT !.reported_at = SeenBefore - 60,
                      !.cpu_temperature_c = Some(990),
                      !.mounted_usage = Some(<< [mount_point |-> Some("/data"),
                                                 used_percent |-> Some(990)] >>),
                      !.uptime_seconds = Some(60)]

\* the tile definitions the dashboard may hold
LivenessTiles ==
    {[PingTile("ping_delay_ms", 60) EXCEPT !.warning_threshold = t[1],
                                           !.critical_threshold = t[2]] :
        t \in {<< 1, 2 >>, << 20, 50 >>}}
    \cup {[PingTile("ping_result", 60) EXCEPT !.warning_threshold = 50,
                                              !.critical_threshold = 20]}

SnapshotTiles ==
    {[MetricTile("cpu_temperature_c") EXCEPT !.backend_id = b, !.warning_threshold = 80,
                                             !.critical_threshold = 90] : b \in Backends}
    \cup {[MetricTile("mount_used_percent") EXCEPT !.mount_path = Some(m),
                                                   !.warning_threshold = 80,
                                                   !.critical_threshold = 95] :
              m \in {"/data", "/dat"}}
    \cup {[MetricTile("last_restart") EXCEPT !.warning_threshold = 24,
                                             !.critical_threshold = 1]}

\* the dashboard over what an earlier run stored: two snapshots of backend 1, and
\* two tile definitions that went through validate_item
PingInit ==
    /\ now = 0
    /\ \E report \in Reports, first \in LivenessTiles, second \in SnapshotTiles :
         /\ validate_item(first) = Some(first)
         /\ validate_item(second) = Some(second)
         /\ CoreInit({build_snapshot_model(1, 1, EarlierReport, None),
                      build_snapshot_model(2, 1, report, None)})
         /\ StoreInit
         /\ TileStart(first, second)

\* the process starts its poller once, at startup
Boot == pc = "init" /\ Start

Next ==
    \/ Boot
    \/ TickLoad
    \/ TickLoadFails
    \/ TickSkip
    \/ TickPoll
    \/ TickDone
    \/ PollGetFails
    \/ PollGetInactive
    \/ PollReturn
    \/ Sleep
    \/ \E c \in Callers : IngestReturns(c)
    \/ \E b \in Backends : RefreshGet(b)
    \/ RefreshRespond
    \/ AdvanceClock
    \/ \E b \in Backends : update_backend(b)

Spec == Init /\ [][Next]_vars

\* a start() after a stop() that has returned
Restart == task = "none" /\ pc = "exited" /\ Start

\* the poller from startup to shutdown and back, with the polls of its ticks
LifecycleNext ==
    \/ Boot
    \/ Restart
    \/ StopRequest
    \/ StopJoin
    \/ RunExit
    \/ TickLoad
    \/ TickLoadFails
    \/ TickSkip
    \/ TickPoll
    \/ TickDone
    \/ PollGetFails
    \/ PollGetInactive
    \/ PollReturn
    \/ Sleep
    \/ IngestReturns("poller")
    \/ AdvanceClock
    \/ \E b \in Backends : update_backend(b)
    \/ \E b \in Backends : delete_backend(b)

LifecycleSpec == Init /\ [][LifecycleNext]_vars

\* the poller and the refresh endpoint while an administrator edits a backend,
\* its poll interval included, and the process stops and starts its poller
IntervalNext ==
    \/ Next
    \/ Restart
    \/ StopRequest
    \/ StopJoin
    \/ RunExit
    \/ \E b \in Backends, seconds \in PollIntervals : update_poll_interval(b, seconds)

IntervalSpec == Init /\ [][IntervalNext]_vars

StoreSpec == Init /\ [][StoreNext]_vars

TileDefSpec == Init /\ [][TileDefNext]_vars

PingSpec == PingInit /\ [][PingNext]_vars

\* both backends were polled by an earlier run that had no thresholds configured:
\* the warnings of its snapshots are those the agents sent
SettingsInit ==
    /\ now = 0
    /\ \E one \in Reports, two \in Reports :
         /\ CoreInit({build_snapshot_model(1, 1, EarlierReport, Some(<< "agent warning" >>)),
                      build_snapshot_model(2, 1, one, None),
                      build_snapshot_model(3, 2, two, Some(<< "agent warning" >>))})
         /\ StoreInit
         /\ TileInit

SettingsNext == \E payload \in SettingsPayloads : update_settings(payload)

SettingsSpec == SettingsInit /\ [][SettingsNext]_vars

StartStopSpec == Init /\ [][StartStopNext]_vars

\* ------------------------------------------------------------ properties
\* C1: an ingest call attempts a notification exactly when it commits a non-empty
\* warning list for a target whose stored warning state, before it, was empty
C1_NotifiesOnEdgeOnly ==
    [][\A c \in Callers :
         (Awaited(c) /\ sess'[c].result # "n/a") =>
            LET b == sess[c].bid
                committed == next_id' = next_id + 1
                attempted == sess'[c].send # "none"
            IN  attempted <=> /\ committed
                              /\ Truthy(backends'[b].last_warning)
                              /\ ~Truthy(backends[b].last_warning)]_vars

\* C2: a poll that returns stores the next due time of its target: the time after
\* the poll plus max(interval, 30) when a snapshot was produced, plus
\* min(max(interval, 30), 60) when none was
C2_NextDueAfterPoll ==
    [][(poll_ev'.kind = "done" /\ idx' = idx + 1) =>
         LET b == Current.backend_id
             effective == Max(Current.poll_interval, 30)
             produced == poll_ev'.success
         IN  /\ pc = "ingest" => (produced <=> sess["poller"].result = "ok")
             /\ pc = "loop" => ~produced
             /\ next_run'[b] = Some(now + IF produced THEN effective
                                          ELSE Min(effective, 60))]_vars

\* C2: a failed poll of a target with interval 600 has stored a retry 60 s later
C2_Witness ==
    /\ pc = "loop" /\ idx > 1
    /\ poll_ev.kind = "done" /\ ~poll_ev.success
    /\ schedules[idx - 1].poll_interval = 600
    /\ next_run[schedules[idx - 1].backend_id] = Some(now + 60)

\* C3: no target has two ingest calls running at the same time
C3_OneIngestionInFlight ==
    \A b \in Backends : Cardinality({c \in Callers : InFlight(c, b)}) <= 1

\* C4: while the ingest call the tick made for one target is running, the tick can
\* start the poll of a later target of its list that is due
C4_InFlightDoesNotBlock ==
    \A i \in 1..Len(schedules) :
        LET b == schedules[i].backend_id
        IN  ( /\ task = "running" /\ pc = "ingest" /\ Awaited("poller")
              /\ i > idx
              /\ tick_now >= NextDue(schedules[i], next_run[b], tick_now)
              /\ backends[b].exists /\ backends[b].is_active
              /\ ingest_calls + Pending < MaxIngests )
            => ENABLED BeginPoll(b)

\* C5: when the loop of a tick ends, no target after the one it is at is due:
\* an exception about one target does not keep the tick from the others
C5_FailureStaysWithTarget ==
    [][(pc = "loop" /\ pc' = "sleep") =>
         \A i \in 1..Len(schedules) :
             i > idx =>
               ~(tick_now >= NextDue(schedules[i], next_run[schedules[i].backend_id],
                                     tick_now))]_vars

\* C6: the wrapper never lets an exception out, calls ingest at most twice, the
\* second time only after a schema mismatch of the first call and the schema fix,
\* and returns no snapshot when its last ingest call failed
C6_WrapperContains ==
    /\ [](sess["poller"].attempt <= 2)
    /\ [][(pc = "ingest" /\ sess["poller"].result # "n/a") =>
            /\ poll_ev'.kind # "raise"
            /\ pc' \in {"ingest", "loop"}
            /\ sess'["poller"].attempt > sess["poller"].attempt =>
                 /\ sess["poller"].attempt = 1
                 /\ sess["poller"].result = "SchemaMismatch"
                 /\ sess'["poller"].migrated
            /\ (pc' = "loop" /\ sess["poller"].result # "ok") => ~poll_ev'.success]_vars

\* C6: the second ingest call of one wrapper invocation has failed
C6_Witness ==
    /\ pc = "ingest"
    /\ sess["poller"].attempt = 2 /\ sess["poller"].migrated
    /\ sess["poller"].result \notin {"n/a", "ok"}

\* C7: an ingest call whose notification failed still ends with its snapshot
C7_NotificationFailureSwallowed ==
    \A c \in Callers :
        sess[c].send \in {"telegram_error", "request_error"} => sess[c].result = "ok"

C9_SnapshotIffSuccess ==
    [][\A c \in Callers :
         (Awaited(c) /\ sess'[c].result # "n/a") =>
            LET b == sess[c].bid
            IN  IF sess'[c].result = "ok"
                THEN /\ Cardinality(snapshots' \ snapshots) = 1
                     /\ backends'[b].last_seen_at = Some(now)
                ELSE /\ snapshots' = snapshots
                     /\ backends'[b] = backends[b]]_vars

\* C10: a tick polls a target with a last contact only at or after the last
\* contact plus max(interval, 30), and a target without last contact and without
\* a tracked due time is polled by the tick that reaches it
C10_RespectsLastContact ==
    [][(task = "running" /\ pc = "loop" /\ idx <= Len(schedules)
          /\ (idx' # idx \/ pc' # pc)) =>
         LET polled == poll_ev'.kind \in {"poll", "done", "raise"}
             last_seen == Current.last_seen_at
         IN  /\ polled => \/ last_seen = None
                          \/ tick_now >= last_seen[1] + Max(Current.poll_interval, 30)
             /\ (last_seen = None /\ next_run[Current.backend_id] = None) => polled]_vars

\* C10: the target seen before the start was skipped by the first tick and is
\* polled by the tick at its last contact plus 30 s
C10_Witness ==
    /\ pc = "ingest" /\ sess["poller"].bid = 1
    /\ Current.last_seen_at = Some(SeenBefore)
    /\ tick_now = SeenBefore + 30
    /\ next_run[1] = Some(SeenBefore + 30)

\* C11: a loop that has seen the stop signal at the top of its loop starts no
\* tick, a stop request leaves the tick that is running alone and the tick goes
\* on to its end, stop() returns only once the loop has exited, and when it has
\* returned no next-due time is tracked
C11_CleanStop ==
    /\ [](task = "none" => \A b \in Backends : next_run[b] = None)
    /\ [][/\ (pc = "top" /\ stop_event) => pc' \in {"top", "exited"}
          /\ (~stop_event /\ stop_event') => UNCHANGED << tickVars, sess, task >>
          /\ (task = "running" /\ pc \in {"loop", "ingest"}) =>
                (task' = "running" /\ pc' \in {"loop", "ingest", "sleep"})
          /\ (stopping /\ ~stopping') =>
                /\ task = "done" /\ pc = "exited"
                /\ task' = "none"
                /\ \A b \in Backends : next_run'[b] = None]_vars

\* C11: a stop() has returned after the loop had polled
C11_Witness ==
    /\ task = "none" /\ pc = "exited"
    /\ stop_event /\ ~stopping
    /\ ingest_calls > 0

\* C12: a tick that ends, by an exception or not, leaves the loop running and
\* asleep; without a stop request the sleep lasts one tick period, and the loop
\* then goes into its next tick and not out
C12_AbortedTickIsFollowed ==
    /\ [][/\ (pc \in {"top", "loop", "ingest"} /\ pc' = "sleep") => task' = "running"
          /\ (pc = "sleep" /\ pc' # "sleep" /\ ~stop_event) =>
                (pc' = "top" /\ now' = now + 5 /\ task' = "running")
          /\ (pc = "top" /\ ~stop_event /\ pc' # "top") => pc' \in {"loop", "sleep"}]_vars
    /\ []((task = "running" /\ pc = "top" /\ ~stop_event) => ENABLED TickLoad)

\* C12: a tick was aborted by an exception, the loop has slept and is at its next tick
C12_Witness ==
    /\ task = "running" /\ pc = "top" /\ ~stop_event
    /\ poll_ev.kind = "raise"
    /\ now = DEFAULT_TICK_SECONDS

\* C13: when a tick has gone through its whole list, the backends with a tracked
\* next-due time are the backends of the list the tick loaded
C13_TrackedIsLoaded ==
    [][(task = "running" /\ pc = "loop" /\ idx > Len(schedules) /\ pc' = "sleep") =>
         {b \in Backends : next_run'[b] # None}
           = {schedules[i].backend_id : i \in 1..Len(schedules)}]_vars

\* C13: a tick is over, and of a backend that is inactive or gone nothing is
\* tracked while the other backend has its next-due time
C13_Witness ==
    /\ task = "running" /\ pc = "sleep" /\ now = DEFAULT_TICK_SECONDS
    /\ poll_ev.kind # "raise"
    /\ \E b \in Backends :
         /\ ~backends[b].exists \/ ~backends[b].is_active
         /\ next_run[b] = None
         /\ \E o \in Backends \ {b} : next_run[o] # None

C15_NoneOlderThanMaxAge ==
    store_op \in {"record", "prune"} =>
        \A i \in 1..Len(items) :
            heap[items[i]].reported_at >= store_now - history_retention

\* C16: latest() returns None on an empty store and else the last recorded
\* payload as it was recorded; no caller holds an object of the store, and the
\* last entry stays as it was recorded
C16_StoreIsolated ==
    /\ \A i \in 1..Len(items) : items[i] \notin held
    /\ items # <<>> => heap[items[Len(items)]] = recorded[Len(recorded)]
    /\ store_op = "latest" =>
          returned = IF items = <<>> THEN None ELSE Some(recorded[Len(recorded)])

\* C16: a later latest() after a caller changed a payload it had recorded and a
\* value an earlier latest() had returned
C16_Witness ==
    /\ store_op = "latest"
    /\ returned # None
    /\ \E p \in held : p <= Len(heap) /\ heap[p].hostname = "mutated" /\ p + 1 \in DOMAIN heap
                       /\ \E i \in 1..Len(items) : items[i] = p + 1
    /\ Cardinality({r \in held : heap[r].hostname = "mutated"}) >= 2

\* C20, as stated: every stored tile definition has warning > critical when its
\* selector is 'time since restart' and warning < critical for every other selector
C20_EveryTileOrdered ==
    \A id \in TileIds :
        q_items[id] # None =>
            LET item == q_items[id][1]
            IN  IF item.metric_key = "last_restart"
                THEN item.warning_threshold > item.critical_threshold
                ELSE item.warning_threshold < item.critical_threshold

\* C20: every stored tile definition whose selector is not ping_result has
\* warning > critical for 'time since restart' and warning < critical otherwise;
\* a create or update that is rejected leaves the stored definitions as they
\* were, and a request that breaks the order of such a selector is rejected
C20_OrderedButPingResult ==
    /\ [](\A id \in TileIds :
            (q_items[id] # None /\ q_items[id][1].metric_key # "ping_result") =>
                LET item == q_items[id][1]
                IN  IF item.metric_key = "last_restart"
                    THEN item.warning_threshold > item.critical_threshold
                    ELSE item.warning_threshold < item.critical_threshold)
    /\ [][/\ tile_resp' \in {404, 422} => q_items' = q_items
          /\ q_items' # q_items => tile_resp' \in {200, 201}]_vars

\* C20: a request was rejected while a ping_result tile with warning above
\* critical and a 'time since restart' tile are stored
C20_Witness ==
    /\ tile_resp = 422
    /\ \E id \in TileIds :
         /\ q_items[id] # None
         /\ q_items[id][1].metric_key = "ping_result"
         /\ q_items[id][1].warning_threshold > q_items[id][1].critical_threshold
    /\ \E id \in TileIds :
         /\ q_items[id] # None
         /\ q_items[id][1].metric_key = "last_restart"

\* C17: at a liveness tile a request starts a ping exactly when the tile has no
\* cached result or the cached result is at least as old as the interval of the
\* tile; else it goes on with the cached result and the cache stays as it is
C17_ProbesWhenStale ==
    [][\A r \in Requests :
         ( /\ reqs[r].phase = "loop" /\ reqs[r].pos <= Len(reqs[r].list)
           /\ reqs[r].list[reqs[r].pos].item.metric_key \in {"ping_result", "ping_delay_ms"}
           /\ reqs'[r] # reqs[r] ) =>
            LET entry == reqs[r].list[reqs[r].pos]
                cached == ping_cache[entry.id]
                stale == \/ cached = None
                         \/ ping_now - cached[1].checked_at >= entry.item.ping_interval_seconds
            IN  /\ reqs'[r].phase = "probe" <=> stale
                /\ ~stale => (reqs'[r].pos = reqs[r].pos + 1 /\ ping_cache' = ping_cache)]_vars

\* C17: a ping runs for a tile with interval 60 whose cached result is 120 s old
C17_Witness ==
    \E r \in Requests :
        /\ reqs[r].phase = "probe"
        /\ LET entry == reqs[r].list[reqs[r].pos]
           IN  /\ entry.item.ping_interval_seconds = 60
               /\ ping_cache[entry.id] # None
               /\ reqs[r].now - ping_cache[entry.id][1].checked_at = 120

\* C18: no tile has two requests between finding its cache stale and writing
\* the fresh result
C18_OneProbePerTile ==
    \A id \in TileIds :
        Cardinality({r \in Requests :
                        /\ reqs[r].phase = "probe"
                        /\ reqs[r].list[reqs[r].pos].id = id}) <= 1

\* C19: while the ping of a liveness tile runs, the request can derive the tile
\* that follows it in its list
C19_ProbeDoesNotBlock ==
    \A r \in Requests :
        ( /\ reqs[r].phase = "probe"
          /\ reqs[r].pos < Len(reqs[r].list)
          /\ reqs[r].list[reqs[r].pos + 1].item.metric_key \notin _PING_METRICS )
        => ENABLED DeriveTile(r, reqs[r].pos + 1)

\* C21: the tile of a definition that is not a liveness tile has status 'unknown'
\* exactly when the selected value is absent: no snapshot of the target, the
\* field missing in its latest snapshot, or no mount with exactly the configured
\* path.  Otherwise a higher-is-worse selector gives 'critical' at or above the
\* critical threshold, else 'warn' at or above the warning threshold, else 'ok',
\* and 'time since restart' gives 'critical' at or below the critical threshold,
\* else 'warn' at or below the warning threshold, else 'ok'
C21_StatusFromValue ==
    [][\A r \in Requests :
         ( /\ Len(reqs'[r].tiles) = Len(reqs[r].tiles) + 1
           /\ reqs[r].list[reqs[r].pos].item.metric_key
                 \notin {"ping_result", "ping_delay_ms"} ) =>
            LET item == reqs[r].list[reqs[r].pos].item
                key == item.metric_key
                rows == {s \in snapshots : s.backend_id = item.backend_id}
                newest == {s \in rows : \A o \in rows : o.reported_at <= s.reported_at}
                sn == CHOOSE s \in newest : TRUE
                mounts == IF sn.mounted_usage = None THEN <<>> ELSE sn.mounted_usage[1]
                hits == {i \in DOMAIN mounts : mounts[i].mount_point = item.mount_path}
                selected ==
                    IF newest = {} THEN None
                    ELSE CASE key = "cpu_temperature_c" -> sn.cpu_temperature_c
                           [] key = "ram_used_percent" -> sn.ram_used_percent
                           [] key = "disk_usage_percent" -> sn.disk_usage_percent
                           [] key = "last_restart" -> sn.uptime_seconds
                           [] key = "mount_used_percent" ->
                                 IF hits = {} THEN None
                                 ELSE mounts[CHOOSE i \in hits : \A j \in hits : i <= j]
                                        .used_percent
                v == selected[1]
                tile == reqs'[r].tiles[Len(reqs'[r].tiles)]
            IN  /\ tile.status = "unknown" <=> selected = None
                /\ selected # None =>
                     tile.status =
                        IF key = "last_restart"
                        THEN IF v <= item.critical_threshold * 3600 THEN "critical"
                             ELSE IF v <= item.warning_threshold * 3600 THEN "warn"
                             ELSE "ok"
                        ELSE IF v >= item.critical_threshold * 10 THEN "critical"
                             ELSE IF v >= item.warning_threshold * 10 THEN "warn"
                             ELSE "ok"]_vars

\* C21: a request has built the tile of mount /data, warning 80 and critical 95,
\* over a latest snapshot with /data at 92.0: status 'warn', shown as 92%
C21_Witness ==
    \E r \in Requests :
        \E i \in 1..Len(reqs[r].tiles) :
            /\ reqs[r].list[i].item.metric_key = "mount_used_percent"
            /\ reqs[r].list[i].item.mount_path = Some("/data")
            /\ reqs[r].list[i].item.warning_threshold = 80
            /\ reqs[r].list[i].item.critical_threshold = 95
            /\ reqs[r].tiles[i].value = Some(920)
            /\ reqs[r].tiles[i].status = "warn"
            /\ reqs[r].tiles[i].display_value = "92%"

\* C22: the tile of a liveness definition is made of the liveness result alone,
\* whatever the snapshot of the target holds: ping_result gives ok and 'OK' on
\* success, critical and 'NOK' on failure; ping_delay_ms gives on success the
\* latency, compared with the thresholds, and on failure critical and 'timeout';
\* a ping that failed ends in a tile, and the request goes on to its next tile
C22_LivenessFromCheckOnly ==
    [][\A r \in Requests :
         /\ ( /\ Len(reqs'[r].tiles) = Len(reqs[r].tiles) + 1
              /\ reqs[r].list[reqs[r].pos].item.metric_key
                    \in {"ping_result", "ping_delay_ms"} ) =>
               LET entry == reqs[r].list[reqs[r].pos]
                   item == entry.item
                   check == ping_cache'[entry.id][1]
                   tile == reqs'[r].tiles[Len(reqs'[r].tiles)]
               IN  /\ tile.reported_at = Some(check.checked_at)
                   /\ item.metric_key = "ping_result" =>
                        IF check.success
                        THEN tile.status = "ok" /\ tile.display_value = "OK"
                        ELSE tile.status = "critical" /\ tile.display_value = "NOK"
                   /\ item.metric_key = "ping_delay_ms" =>
                        IF check.success
                        THEN /\ tile.value = check.latency_ms
                             /\ tile.status =
                                  IF check.latency_ms[1] >= item.critical_threshold
                                  THEN "critical"
                                  ELSE IF check.latency_ms[1] >= item.warning_threshold
                                  THEN "warn"
                                  ELSE "ok"
                        ELSE /\ tile.value = None
                             /\ tile.status = "critical"
                             /\ tile.display_value = "timeout"
         /\ (reqs[r].phase = "probe" /\ reqs'[r] # reqs[r]) =>
               /\ reqs'[r].phase = "loop"
               /\ reqs'[r].pos = reqs[r].pos + 1
               /\ Len(reqs'[r].tiles) = Len(reqs[r].tiles) + 1]_vars

\* C22: a request has built the tile of a latency check that failed, for a target
\* whose latest snapshot holds a temperature, and has gone on to its next tile
C22_Witness ==
    \E r \in Requests :
        /\ reqs[r].phase = "loop" /\ reqs[r].pos = 2
        /\ reqs[r].list[1].item.metric_key = "ping_delay_ms"
        /\ reqs[r].tiles[1].display_value = "timeout"
        /\ reqs[r].tiles[1].status = "critical"
        /\ reqs[r].latest[reqs[r].list[1].item.backend_id] # None
        /\ reqs[r].latest[reqs[r].list[1].item.backend_id][1].cpu_temperature_c # None

\* C30: a write to the cache entry of a tile stores a check time that is at least
\* the check time of the entry it replaces
C30_CacheTimeMonotone ==
    [][\A id \in TileIds :
         (ping_cache[id] # None /\ ping_cache'[id] # None) =>
            ping_cache'[id][1].checked_at >= ping_cache[id][1].checked_at]_vars

\* C23: evaluated with thresholds, a snapshot gets one warning for the CPU
\* temperature, then one for the RAM, then one for the root disk, then one per
\* mount in the order of the snapshot, each exactly when its value is there and at
\* or above its limit; an unset limit is 80 for the CPU, 90 for the RAM, 90 for
\* the disk, and for the mounts the limit of the root disk; a missing field gives
\* no warning, and where nothing triggers the list is empty
C23_WarningsInOrder ==
    [][\A s \in snapshots :
         ( /\ settings' # settings \/ snapshots' # snapshots
           /\ settings'.warn_thresholds # None
           /\ \A o \in snapshots : o.backend_id = s.backend_id => o.reported_at <= s.reported_at )
         => LET th == settings'.warn_thresholds[1]
                Or(limit, default) == IF limit = None THEN default ELSE limit[1]
                cpu_limit == Or(th.cpu_temperature_c, 800)
                ram_limit == Or(th.ram_used_percent, 900)
                disk_limit == Or(th.disk_usage_percent, 900)
                mount_limit == Or(th.mounted_usage_percent, disk_limit)
                Text(v) == ToString(v \div 10) \o "." \o ToString(v % 10)
                At(v, limit) == v # None /\ v[1] >= limit
                mounts == IF s.mounted_usage = None THEN <<>> ELSE s.mounted_usage[1]
                Full(m) == At(m.used_percent, mount_limit)
                full == SelectSeq(mounts, Full)
                expected ==
                    (IF At(s.cpu_temperature_c, cpu_limit)
                     THEN << "High CPU temperature " \o Text(s.cpu_temperature_c[1]) \o "C" >>
                     ELSE <<>>)
                    \o (IF At(s.ram_used_percent, ram_limit)
                        THEN << "High RAM usage " \o Text(s.ram_used_percent[1]) \o "%" >>
                        ELSE <<>>)
                    \o (IF At(s.disk_usage_percent, disk_limit)
                        THEN << "Disk usage critical at "
                                  \o Text(s.disk_usage_percent[1]) \o "%" >>
                        ELSE <<>>)
                    \o [i \in 1..Len(full) |->
                          full[i].mount_point[1] \o " usage critical at "
                             \o Text(full[i].used_percent[1]) \o "%"]
            IN  \E n \in snapshots' :
                    /\ n.id = s.id
                    /\ n.warnings = IF expected = <<>> THEN None ELSE Some(expected)]_vars

\* C23: with every threshold left unset, the snapshot with CPU 85.2, RAM 91.0,
\* disk 95.0 and the mounts /data at 90.0 and /srv at 40.0 has its four warnings
C23_Witness ==
    /\ settings.warn_thresholds
          = Some([cpu_temperature_c |-> None, ram_used_percent |-> None,
                  disk_usage_percent |-> None, mounted_usage_percent |-> None])
    /\ \E s \in snapshots :
         s.warnings = Some(<< "High CPU temperature 85.2C", "High RAM usage 91.0%",
                              "Disk usage critical at 95.0%",
                              "/data usage critical at 90.0%" >>)

\* C24: a recalculation pass leaves every snapshot but the latest of each target
\* as it is, changes of the latest of each target nothing but the warnings, which
\* become the warnings evaluated with the new thresholds or none when there are
\* none, and changes of each target nothing but the warning summary, which becomes
\* the summary of those warnings
C24_RewritesLatestOnly ==
    [][(settings' # settings \/ snapshots' # snapshots \/ backends' # backends) =>
         /\ Cardinality(snapshots') = Cardinality(snapshots)
         /\ \A s \in snapshots :
              IF \E o \in snapshots : o.backend_id = s.backend_id /\ o.reported_at > s.reported_at
              THEN s \in snapshots'
              ELSE \E n \in snapshots' :
                      /\ n.id = s.id
                      /\ [n EXCEPT !.warnings = s.warnings] = s
                      /\ settings'.warn_thresholds # None =>
                           /\ n.warnings = OrNone(detect_warnings(s, settings'.warn_thresholds[1]))
                           /\ backends'[s.backend_id].last_warning
                                 = IF n.warnings = None THEN None
                                   ELSE Some(Join(n.warnings[1]))
         /\ \A b \in Backends :
              [backends'[b] EXCEPT !.last_warning = backends[b].last_warning] = backends[b]]_vars

\* C24: after a pass the earlier snapshot of backend 1 still has the warning its
\* agent sent, its latest snapshot has the evaluated warnings, and the latest
\* snapshot of backend 2 has lost the warning of its agent
C24_Witness ==
    /\ settings.warn_thresholds # None
    /\ \E s \in snapshots : s.id = 1 /\ s.warnings = Some(<< "agent warning" >>)
    /\ \E s \in snapshots :
         /\ s.id = 2 /\ s.warnings = Some(<< "High CPU temperature 85.2C" >>)
         /\ backends[1].last_warning = Some("High CPU temperature 85.2C")
    /\ \E s \in snapshots : s.id = 3 /\ s.warnings = None
    /\ backends[2].last_warning = None

\* C25: the snapshot an ingest call stores has as its warnings the warnings
\* evaluated from its own values with the configured thresholds, each threshold
\* that is not configured at its default, whatever warnings the agent sent; the
\* warning summary of the target is the summary of that list, and a notification
\* is attempted exactly when that list is not empty and the target had no summary
C25_StoresEvaluatedWarnings ==
    [][\A c \in Callers :
         (Awaited(c) /\ sess'[c].result # "n/a" /\ next_id' = next_id + 1) =>
            LET b == sess[c].bid
                unset == [cpu_temperature_c |-> None, ram_used_percent |-> None,
                          disk_usage_percent |-> None, mounted_usage_percent |-> None]
                th == IF settings.warn_thresholds = None THEN unset
                      ELSE settings.warn_thresholds[1]
            IN  \E n \in snapshots' :
                    LET evaluated == detect_warnings(n, th)
                    IN  /\ n.id = next_id
                        /\ n.warnings = IF evaluated = <<>> THEN None ELSE Some(evaluated)
                        /\ backends'[b].last_warning
                              = IF evaluated = <<>> THEN None ELSE Some(Join(evaluated))
                        /\ sess'[c].send # "none"
                              <=> (evaluated # <<>> /\ ~Truthy(backends[b].last_warning))]_vars

\* C26: whatever calls of start() and stop() are made, at most one loop runs
C26_OneLoop ==
    Cardinality({i \in LoopIds : Running(i)}) <= 1

\* C27: a tick polls the target it is at exactly when its time is at or after D,
\* and stores D as the tracked next-due time of a target it does not poll. D is
\* last contact + max(interval, 30) when there is a last contact and either
\* nothing is tracked or that sum is later than the tracked time; else the
\* tracked time; and the time of the tick when there is neither
C27_DueRule ==
    [][(task = "running" /\ pc = "loop" /\ idx <= Len(schedules)
          /\ (idx' # idx \/ pc' # pc)) =>
         LET b == Current.backend_id
             last_contact == Current.last_seen_at
             tracked == next_run[b]
             candidate == last_contact[1] + Max(Current.poll_interval, 30)
             D == IF last_contact # None /\ (tracked = None \/ candidate > tracked[1])
                  THEN candidate
                  ELSE IF tracked # None THEN tracked[1] ELSE tick_now
             polled == poll_ev'.kind \in {"poll", "done", "raise"}
         IN  /\ polled <=> tick_now >= D
             /\ ~polled => next_run'[b] = Some(D)]_vars

\* C27: the second tick has skipped the target without last contact whose poll
\* failed in the first tick, and its tracked time is still the retry time
C27_Witness ==
    /\ pc = "loop" /\ idx > 1 /\ poll_ev.kind = "skip"
    /\ tick_now = DEFAULT_TICK_SECONDS
    /\ schedules[idx - 1].last_seen_at = None
    /\ next_run[schedules[idx - 1].backend_id] = Some(RETRY_CAP_SECONDS)

\* C28: the tracked next-due time of a target never gets earlier, and while the
\* loop runs it goes away only when a tick loads a list without the target; so
\* it is with a poll interval that was lowered and with a last contact that moved
C28_TrackedNeverEarlier ==
    [][\A b \in Backends :
         next_run[b] # None =>
           IF next_run'[b] # None
           THEN next_run'[b][1] >= next_run[b][1]
           ELSE \/ stop_event
                \/ /\ pc = "top" /\ pc' = "loop"
                   /\ \A i \in 1..Len(schedules') : schedules'[i].backend_id # b]_vars

\* C28: the interval of backend 2 was lowered from 600 to 30 after a poll that
\* took place at 0, and the tick at 5 has left its tracked time at 600
C28_Witness ==
    /\ pc = "loop" /\ idx > 1 /\ poll_ev.kind = "skip"
    /\ tick_now = DEFAULT_TICK_SECONDS
    /\ schedules[idx - 1].backend_id = 2
    /\ schedules[idx - 1].poll_interval = MIN_INTERVAL_SECONDS
    /\ schedules[idx - 1].last_seen_at = Some(0)
    /\ next_run[2] = Some(600)

\* C29: the poller starts the ingestion of a target only when the target exists
\* and is active at that moment; the poll of a due target that is inactive or
\* gone by then, though the tick loaded it, starts no ingestion and, when it
\* returns, counts as a poll without snapshot: the retry delay is stored
C29_NoIngestOfInactive ==
    [][(task = "running" /\ pc = "loop" /\ idx <= Len(schedules)
          /\ (idx' # idx \/ pc' # pc)) =>
         LET b == Current.backend_id
             usable == backends[b].exists /\ backends[b].is_active
             polled == poll_ev'.kind \in {"poll", "done", "raise"}
         IN  /\ pc' = "ingest" => usable /\ sess'["poller"].bid = b
             /\ (polled /\ ~usable) =>
                  /\ sess'["poller"] = sess["poller"]
                  /\ ingest_calls' = ingest_calls
                  /\ poll_ev'.kind = "done" =>
                       /\ ~poll_ev'.success
                       /\ next_run'[b] = Some(now + Min(Max(Current.poll_interval, 30), 60))]_vars

\* C29: a target of the tick's list that was deactivated after the list was
\* loaded has been polled without an ingest call
C29_Witness ==
    /\ pc = "loop" /\ idx > 1
    /\ poll_ev.kind = "done" /\ ~poll_ev.success
    /\ ingest_calls = 0 /\ sess["poller"].attempt = 0
    /\ LET b == schedules[idx - 1].backend_id
       IN  backends[b].exists /\ ~backends[b].is_active
====
